---- MODULE Spec2Model ----
(***************************************************************************)
(* Model of package registry, errors.go: the ErrorCode enumeration with    *)
(* its code<->identifier tables, the Error record, the Errors aggregate    *)
(* and the structured "not found" errors.                                  *)
(*                                                                         *)
(* A Go string is modelled as the sequence of its one-character strings, a *)
(* []byte as the sequence of its byte values, so that lower-casing,        *)
(* replacing, concatenating and the string<->bytes conversions are         *)
(* computed and not assumed.                                               *)
(***************************************************************************)
EXTENDS Integers, Sequences, FiniteSets, TLC

\* ------------------------------------------------------------------ bounds

\* The aggregate is explored up to this many stored elements.
MaxLen == 2

\* -------------------------------------------------------------- characters

\* The ASCII characters from code point 32 (space) to 95 (underscore).
Punctuation ==
  <<" ","!","\"","#","$","%","&","'","(",")","*","+",",","-",".","/",
    "0","1","2","3","4","5","6","7","8","9",":",";","<","=",">","?",
    "@","A","B","C","D","E","F","G","H","I","J","K","L","M","N","O",
    "P","Q","R","S","T","U","V","W","X","Y","Z","[","\\","]","^","_">>

\* The ASCII characters from code point 97 (a) to 122 (z).
Letters ==
  <<"a","b","c","d","e","f","g","h","i","j","k","l","m",
    "n","o","p","q","r","s","t","u","v","w","x","y","z">>

Chars ==
  {Punctuation[i] : i \in DOMAIN Punctuation} \cup {Letters[i] : i \in DOMAIN Letters}
    \cup {"\n"}

\* The byte value of a character (its ASCII code point).
OrdTable ==
  [c \in Chars |->
     IF c = "\n" THEN 10
     ELSE IF \E i \in DOMAIN Letters : Letters[i] = c
          THEN 96 + (CHOOSE i \in DOMAIN Letters : Letters[i] = c)
          ELSE 31 + (CHOOSE i \in DOMAIN Punctuation : Punctuation[i] = c)]

Ord(c) == OrdTable[c]

\* The character of a byte value.
Chr(b) ==
  IF b = 10 THEN "\n" ELSE IF b >= 97 THEN Letters[b - 96] ELSE Punctuation[b - 31]

\* []byte(s): the bytes of a string.
BytesOf(s) == [i \in DOMAIN s |-> Ord(s[i])]

\* string(b): the string of a byte slice.
StringOf(b) == [i \in DOMAIN b |-> Chr(b[i])]

\* ----------------------------------------------------------- package strings

\* unicode.ToLower on one ASCII character: A..Z move up by 32.
ToLowerChar(c) == IF Ord(c) >= 65 /\ Ord(c) <= 90 THEN Chr(Ord(c) + 32) ELSE c

\* strings.ToLower(s)
ToLower(s) == [i \in DOMAIN s |-> ToLowerChar(s[i])]

\* Whether old occurs in s at position i.
HasPrefixAt(s, i, old) ==
  /\ i + Len(old) - 1 <= Len(s)
  /\ \A j \in DOMAIN old : s[i + j - 1] = old[j]

\* strings.Replace(s, old, new, n) for a non-empty old: the first n
\* non-overlapping occurrences of old, left to right, become new; n < 0
\* replaces them all.
RECURSIVE ReplaceFrom(_, _, _, _, _)
ReplaceFrom(s, i, old, new, n) ==
  IF i > Len(s) THEN <<>>
  ELSE IF n # 0 /\ HasPrefixAt(s, i, old)
       THEN new \o ReplaceFrom(s, i + Len(old), old, new, IF n < 0 THEN n ELSE n - 1)
       ELSE <<s[i]>> \o ReplaceFrom(s, i + 1, old, new, n)

Replace(s, old, new, n) == ReplaceFrom(s, 1, old, new, n)

\* The decimal digits of a natural number (fmt's %d of a non-negative int).
RECURSIVE Digits(_)
Digits(k) == IF k < 10 THEN <<Chr(48 + k)>> ELSE Digits(k \div 10) \o <<Chr(48 + (k % 10))>>

\* fmt's %d verb.
Itoa(k) == IF k < 0 THEN <<"-">> \o Digits(0 - k) ELSE Digits(k)

\* ------------------------------------------------------------- error codes

ErrorCodeUnknown == 0
ErrorCodeInvalidDigest == 1
ErrorCodeInvalidLength == 2
ErrorCodeInvalidName == 3
ErrorCodeInvalidTag == 4
ErrorCodeUnknownRepository == 5
ErrorCodeUnknownManifest == 6
ErrorCodeInvalidManifest == 7
ErrorCodeUnverifiedManifest == 8
ErrorCodeUnknownLayer == 9
ErrorCodeUnknownLayerUpload == 10
ErrorCodeUntrustedSignature == 11

\* The codes the const block defines.
DefinedCodes ==
  {ErrorCodeUnknown, ErrorCodeInvalidDigest, ErrorCodeInvalidLength,
   ErrorCodeInvalidName, ErrorCodeInvalidTag, ErrorCodeUnknownRepository,
   ErrorCodeUnknownManifest, ErrorCodeInvalidManifest,
   ErrorCodeUnverifiedManifest, ErrorCodeUnknownLayer,
   ErrorCodeUnknownLayerUpload, ErrorCodeUntrustedSignature}

\* The literal with the identifier of UNKNOWN_LAYER repeated for the next code.
errorCodeStringsRepeated ==
  (ErrorCodeUnknown :> <<"U","N","K","N","O","W","N">>) @@
  (ErrorCodeInvalidDigest :> <<"I","N","V","A","L","I","D","_","D","I","G","E","S","T">>) @@
  (ErrorCodeInvalidLength :> <<"I","N","V","A","L","I","D","_","L","E","N","G","T","H">>) @@
  (ErrorCodeInvalidName :> <<"I","N","V","A","L","I","D","_","N","A","M","E">>) @@
  (ErrorCodeInvalidTag :> <<"I","N","V","A","L","I","D","_","T","A","G">>) @@
  (ErrorCodeUnknownRepository :> <<"U","N","K","N","O","W","N","_","R","E","P","O","S","I","T","O","R","Y">>) @@
  (ErrorCodeUnknownManifest :> <<"U","N","K","N","O","W","N","_","M","A","N","I","F","E","S","T">>) @@
  (ErrorCodeInvalidManifest :> <<"I","N","V","A","L","I","D","_","M","A","N","I","F","E","S","T">>) @@
  (ErrorCodeUnverifiedManifest :> <<"U","N","V","E","R","I","F","I","E","D","_","M","A","N","I","F","E","S","T">>) @@
  (ErrorCodeUnknownLayer :> <<"U","N","K","N","O","W","N","_","L","A","Y","E","R">>) @@
  (ErrorCodeUnknownLayerUpload :> <<"U","N","K","N","O","W","N","_","L","A","Y","E","R">>) @@
  (ErrorCodeUntrustedSignature :> <<"U","N","T","R","U","S","T","E","D","_","S","I","G","N","A","T","U","R","E">>)

\* The map literal errorCodeStrings is initialised with.
errorCodeStringsLiteral ==
  (ErrorCodeUnknown :> <<"U","N","K","N","O","W","N">>) @@
  (ErrorCodeInvalidDigest :> <<"I","N","V","A","L","I","D","_","D","I","G","E","S","T">>) @@
  (ErrorCodeInvalidLength :> <<"I","N","V","A","L","I","D","_","L","E","N","G","T","H">>) @@
  (ErrorCodeInvalidName :> <<"I","N","V","A","L","I","D","_","N","A","M","E">>) @@
  (ErrorCodeInvalidTag :> <<"I","N","V","A","L","I","D","_","T","A","G">>) @@
  (ErrorCodeUnknownRepository :> <<"U","N","K","N","O","W","N","_","R","E","P","O","S","I","T","O","R","Y">>) @@
  (ErrorCodeUnknownManifest :> <<"U","N","K","N","O","W","N","_","M","A","N","I","F","E","S","T">>) @@
  (ErrorCodeInvalidManifest :> <<"I","N","V","A","L","I","D","_","M","A","N","I","F","E","S","T">>) @@
  (ErrorCodeUnverifiedManifest :> <<"U","N","V","E","R","I","F","I","E","D","_","M","A","N","I","F","E","S","T">>) @@
  (ErrorCodeUnknownLayer :> <<"U","N","K","N","O","W","N","_","L","A","Y","E","R">>) @@
  (ErrorCodeUnknownLayerUpload :> <<"U","N","K","N","O","W","N","_","L","A","Y","E","R","_","U","P","L","O","A","D">>) @@
  (ErrorCodeUntrustedSignature :> <<"U","N","T","R","U","S","T","E","D","_","S","I","G","N","A","T","U","R","E">>)

\* The map errorCodesMessages; nothing in the package assigns to it.
errorCodesMessages ==
  (ErrorCodeUnknown :> <<"u","n","k","n","o","w","n"," ","e","r","r","o","r">>) @@
  (ErrorCodeInvalidDigest :> <<"p","r","o","v","i","d","e","d"," ","d","i","g","e","s","t"," ","d","i","d"," ","n","o","t"," ","m","a","t","c","h"," ","u","p","l","o","a","d","e","d"," ","c","o","n","t","e","n","t">>) @@
  (ErrorCodeInvalidLength :> <<"p","r","o","v","i","d","e","d"," ","l","e","n","g","t","h"," ","d","i","d"," ","n","o","t"," ","m","a","t","c","h"," ","c","o","n","t","e","n","t"," ","l","e","n","g","t","h">>) @@
  (ErrorCodeInvalidName :> <<"m","a","n","i","f","e","s","t"," ","n","a","m","e"," ","d","i","d"," ","n","o","t"," ","m","a","t","c","h"," ","U","R","I">>) @@
  (ErrorCodeInvalidTag :> <<"m","a","n","i","f","e","s","t"," ","t","a","g"," ","d","i","d"," ","n","o","t"," ","m","a","t","c","h"," ","U","R","I">>) @@
  (ErrorCodeUnknownRepository :> <<"r","e","p","o","s","i","t","o","r","y"," ","n","o","t"," ","k","n","o","w","n"," ","t","o"," ","r","e","g","i","s","t","r","y">>) @@
  (ErrorCodeUnknownManifest :> <<"m","a","n","i","f","e","s","t"," ","n","o","t"," ","k","n","o","w","n">>) @@
  (ErrorCodeInvalidManifest :> <<"m","a","n","i","f","e","s","t"," ","i","s"," ","i","n","v","a","l","i","d">>) @@
  (ErrorCodeUnverifiedManifest :> <<"m","a","n","i","f","e","s","t"," ","f","a","i","l","e","d"," ","s","i","g","n","a","t","u","r","e"," ","v","a","l","i","d","a","t","i","o","n">>) @@
  (ErrorCodeUnknownLayer :> <<"r","e","f","e","r","e","n","c","e","d"," ","l","a","y","e","r"," ","n","o","t"," ","a","v","a","i","l","a","b","l","e">>) @@
  (ErrorCodeUnknownLayerUpload :> <<"c","a","n","n","o","t"," ","r","e","s","u","m","e"," ","u","n","k","n","o","w","n"," ","l","a","y","e","r"," ","u","p","l","o","a","d">>) @@
  (ErrorCodeUntrustedSignature :> <<"m","a","n","i","f","e","s","t"," ","s","i","g","n","e","d"," ","b","y"," ","u","n","t","r","u","s","t","e","d"," ","s","o","u","r","c","e">>)

\* ------------------------------------------------------------------- state

VARIABLES
  pc,                 \* "init" while func init() runs, "main" once it returned
  ranged,             \* the keys init's range loop has visited
  errorCodeStrings,   \* the package variable: code -> identifier
  stringToErrorCode,  \* the package variable: identifier -> code
  errs,               \* one Errors value: its slice's backing array and length
  call,               \* the most recent call and what it returned
  mutated,            \* the most recent call that changed errs (op "new": none yet)
  pushed              \* the elements appended since the last Clear, in order

vars == <<pc, ranged, errorCodeStrings, stringToErrorCode, errs, call, mutated, pushed>>

\* The nil interface value.
Nil == [type |-> "nil"]

\* The state when func init() is entered: the package-level map literals are
\* evaluated, stringToErrorCode has just been made (empty), and the Errors
\* value is the zero value (a nil slice).
Init ==
  /\ pc = "init"
  /\ ranged = {}
  /\ errorCodeStrings = errorCodeStringsLiteral
  /\ stringToErrorCode = <<>>
  /\ errs = [array |-> <<>>, len |-> 0]
  /\ call = [op |-> "none"]
  /\ mutated = [op |-> "new"]
  /\ pushed = <<>>

\* m[k] = v on a map.
MapSet(m, k, v) == [x \in DOMAIN m \cup {k} |-> IF x = k THEN v ELSE m[x]]

\* InitLoop with the reverse table keyed by the lower-cased identifier.
InitLoopLowerKey ==
  /\ pc = "init"
  /\ \E k \in DOMAIN errorCodeStrings \ ranged :
       /\ stringToErrorCode' =
            MapSet(stringToErrorCode, ToLower(errorCodeStrings[k]), k)
       /\ ranged' = ranged \cup {k}
  /\ UNCHANGED <<pc, errorCodeStrings, errs, call, mutated, pushed>>

\* One iteration of init's loop: range visits the keys in an unspecified
\* order, each once.
InitLoop ==
  /\ pc = "init"
  /\ \E k \in DOMAIN errorCodeStrings \ ranged :
       /\ stringToErrorCode' = MapSet(stringToErrorCode, errorCodeStrings[k], k)
       /\ ranged' = ranged \cup {k}
  /\ UNCHANGED <<pc, errorCodeStrings, errs, call, mutated, pushed>>

\* The loop is over and init returns.
InitReturn ==
  /\ pc = "init"
  /\ ranged = DOMAIN errorCodeStrings
  /\ pc' = "main"
  /\ UNCHANGED <<ranged, errorCodeStrings, stringToErrorCode, errs, call, mutated, pushed>>

\* ---------------------------------------------------- ErrorCode conversions

\* The zero value of ErrorCode (type ErrorCode int), which a map lookup
\* yields for a missing key.
ZeroErrorCode == 0

\* ParseErrorCode(s)
ParseErrorCode(s) ==
  IF s \in DOMAIN stringToErrorCode THEN stringToErrorCode[s] ELSE ErrorCodeUnknown

\* String without the fallback: the missing key's zero value, "".
StringNoFallback(ec) ==
  IF ec \in DOMAIN errorCodeStrings THEN errorCodeStrings[ec] ELSE <<>>

\* ec.String()
String(ec) ==
  IF ec \in DOMAIN errorCodeStrings THEN errorCodeStrings[ec]
  ELSE errorCodeStrings[ErrorCodeUnknown]

\* ec.Message()
Message(ec) ==
  IF ec \in DOMAIN errorCodesMessages THEN errorCodesMessages[ec]
  ELSE errorCodesMessages[ErrorCodeUnknown]

\* ec.MarshalText(): the pair (text, err).
MarshalText(ec) == [text |-> BytesOf(String(ec)), err |-> Nil]

\* ec.UnmarshalText(text): the value stored through the receiver, and the
\* error returned.
UnmarshalText(text) ==
  [ec  |-> IF StringOf(text) \in DOMAIN stringToErrorCode
           THEN stringToErrorCode[StringOf(text)] ELSE ZeroErrorCode,
   err |-> Nil]

\* A call of ParseErrorCode. from is <<c>> when s is what c.String() just
\* returned, and <<>> for any other argument.
ParseErrorCodeCall(s, from) ==
  /\ pc = "main"
  /\ call' = [op |-> "ParseErrorCode", s |-> s, from |-> from, out |-> ParseErrorCode(s)]
  /\ UNCHANGED <<pc, ranged, errorCodeStrings, stringToErrorCode, errs, mutated, pushed>>

\* A call of ec.String().
StringCall(ec) ==
  /\ pc = "main"
  /\ call' = [op |-> "String", ec |-> ec, out |-> String(ec)]
  /\ UNCHANGED <<pc, ranged, errorCodeStrings, stringToErrorCode, errs, mutated, pushed>>

\* A call of ec.Message().
MessageCall(ec) ==
  /\ pc = "main"
  /\ call' = [op |-> "Message", ec |-> ec, out |-> Message(ec)]
  /\ UNCHANGED <<pc, ranged, errorCodeStrings, stringToErrorCode, errs, mutated, pushed>>

\* A call of ec.MarshalText().
MarshalTextCall(ec) ==
  /\ pc = "main"
  /\ call' = [op |-> "MarshalText", ec |-> ec,
              text |-> MarshalText(ec).text, err |-> MarshalText(ec).err]
  /\ UNCHANGED <<pc, ranged, errorCodeStrings, stringToErrorCode, errs, mutated, pushed>>

\* A call of (&ec).UnmarshalText(text). from is <<c>> when text is what
\* c.MarshalText() just returned, and <<>> for any other argument.
UnmarshalTextCall(text, from) ==
  /\ pc = "main"
  /\ call' = [op |-> "UnmarshalText", text |-> text, from |-> from,
              ec |-> UnmarshalText(text).ec, err |-> UnmarshalText(text).err]
  /\ UNCHANGED <<pc, ranged, errorCodeStrings, stringToErrorCode, errs, mutated, pushed>>

\* ------------------------------------------------------------ error values

\* A string held in an interface{}.
StringValue(s) == [type |-> "string", s |-> s]

\* A DetailUnknownLayer held in an interface{}; the layer is opaque here.
DetailUnknownLayer(layer) == [type |-> "DetailUnknownLayer", Unknown |-> layer]

\* An Error struct value.
ErrorStruct(code, message, detail) ==
  [type |-> "Error", Code |-> code, Message |-> message, Detail |-> detail]

\* A pointer to an Error struct.
ErrorPointer(e) == [type |-> "*Error", elem |-> e]

RepositoryNotFoundError(name) == [type |-> "*RepositoryNotFoundError", Name |-> name]

ImageManifestNotFoundError(name, tag) ==
  [type |-> "*ImageManifestNotFoundError", Name |-> name, Tag |-> tag]

BlobNotFoundError(name, dgst) ==
  [type |-> "*BlobNotFoundError", Name |-> name, Digest |-> dgst]

BlobUploadNotFoundError(location) ==
  [type |-> "*BlobUploadNotFoundError", Location |-> location]

BlobUploadInvalidRangeError(location, lastValidRange, blobSize) ==
  [type |-> "*BlobUploadInvalidRangeError", Location |-> location,
   LastValidRange |-> lastValidRange, BlobSize |-> blobSize]

UnexpectedHTTPStatusError(status) ==
  [type |-> "*UnexpectedHTTPStatusError", Status |-> status]

\* The dynamic types that implement the error interface (a method declared
\* on Error is in the method set of *Error too).
ErrorTypes ==
  {"Error", "*Error", "*RepositoryNotFoundError", "*ImageManifestNotFoundError",
   "*BlobNotFoundError", "*BlobUploadNotFoundError",
   "*BlobUploadInvalidRangeError", "*UnexpectedHTTPStatusError"}

\* The type assertion v.(error) succeeds.
IsError(v) == v.type \in ErrorTypes

\* Error.Error() with the underscores left in.
ErrorErrorNoReplace(e) == ToLower(String(e.Code)) \o <<":"," ">> \o e.Message

\* Error.Error()
ErrorError(e) ==
  ToLower(Replace(String(e.Code), <<"_">>, <<" ">>, -1)) \o <<":"," ">> \o e.Message

\* v.Error() for a value of the error interface, by its dynamic type.
ErrorOf(v) ==
  CASE v.type = "Error" -> ErrorError(v)
    [] v.type = "*Error" -> ErrorError(v.elem)
    [] v.type = "*RepositoryNotFoundError" ->
         <<"N","o"," ","r","e","p","o","s","i","t","o","r","y"," ","f","o","u","n","d"," ","w","i","t","h"," ","N","a","m","e",":"," ">> \o v.Name
    [] v.type = "*ImageManifestNotFoundError" ->
         <<"N","o"," ","m","a","n","i","f","e","s","t"," ","f","o","u","n","d"," ","w","i","t","h"," ","N","a","m","e",":"," ">> \o v.Name \o <<","," ","T","a","g",":"," ">> \o v.Tag
    [] v.type = "*BlobNotFoundError" ->
         <<"N","o"," ","b","l","o","b"," ","f","o","u","n","d"," ","w","i","t","h"," ","N","a","m","e",":"," ">> \o v.Name \o <<","," ","D","i","g","e","s","t",":"," ">> \o v.Digest
    [] v.type = "*BlobUploadNotFoundError" ->
         <<"N","o"," ","b","l","o","b"," ","u","p","l","o","a","d"," ","f","o","u","n","d"," ","a","t"," ","L","o","c","a","t","i","o","n",":"," ">> \o v.Location
    [] v.type = "*BlobUploadInvalidRangeError" ->
         <<"I","n","v","a","l","i","d"," ","r","a","n","g","e"," ","p","r","o","v","i","d","e","d"," ","f","o","r"," ","u","p","l","o","a","d"," ","a","t"," ","L","o","c","a","t","i","o","n",":"," ">> \o v.Location
           \o <<"."," ","L","a","s","t"," ","V","a","l","i","d"," ","R","a","n","g","e",":"," ">> \o Itoa(v.LastValidRange)
           \o <<","," ","B","l","o","b"," ","S","i","z","e",":"," ">> \o Itoa(v.BlobSize)
    [] v.type = "*UnexpectedHTTPStatusError" ->
         <<"R","e","c","e","i","v","e","d"," ","u","n","e","x","p","e","c","t","e","d"," ","H","T","T","P"," ","s","t","a","t","u","s",":"," ">> \o v.Status

\* ------------------------------------------------------ the Errors aggregate

\* The slice errs.Errors: the first len elements of its backing array.
Slice(e) == SubSeq(e.array, 1, e.len)

\* cap(errs.Errors)
Cap(e) == Len(e.array)

\* The capacity append grows a full slice of capacity c to.
GrownCap(c) == IF c = 0 THEN 1 ELSE 2 * c

\* append(errs.Errors, x): x goes right after the last element, in place when
\* the backing array has room, else in a larger array the elements are
\* copied to.
GoAppend(e, x) ==
  IF e.len < Cap(e)
  THEN [array |-> [e.array EXCEPT ![e.len + 1] = x], len |-> e.len + 1]
  ELSE [array |-> [i \in 1..GrownCap(Cap(e)) |->
                     IF i <= e.len THEN e.array[i]
                     ELSE IF i = e.len + 1 THEN x ELSE Nil],
        len |-> e.len + 1]

\* NewElement that wraps every err, an Error value too.
NewElementAlwaysWrap(err) == ErrorStruct(ZeroErrorCode, ErrorOf(err), Nil)

\* The element PushErr appends for err: err itself when its dynamic type is
\* Error, else Error{Message: err.Error()}, whose other fields are zero.
NewElement(err) ==
  IF err.type = "Error" THEN err
  ELSE ErrorStruct(ZeroErrorCode, ErrorOf(err), Nil)

\* errs.PushErr(err): the aggregate afterwards.
PushErr(e, err) == GoAppend(e, NewElement(err))

\* PushedError that keeps an error detail as the error value itself.
PushedErrorRaw(code, details) ==
  ErrorStruct(code, Message(code), IF Len(details) > 0 THEN details[1] ELSE Nil)

\* The Error value Push builds from its arguments (at most one detail).
PushedError(code, details) ==
  LET detail == IF Len(details) > 0 THEN details[1] ELSE Nil
  IN  ErrorStruct(code, Message(code),
                  IF IsError(detail) THEN StringValue(ErrorOf(detail)) ELSE detail)

\* errs.Len()
ErrorsLen(e) == Len(Slice(e))

\* The loop of Errors.Error() with each description put in front of msg.
RECURSIVE ErrorsErrorLoopPrepend(_, _, _)
ErrorsErrorLoopPrepend(s, i, msg) ==
  IF i > Len(s) THEN msg
  ELSE ErrorsErrorLoopPrepend(s, i + 1, ErrorOf(s[i]) \o <<"\n">> \o msg)

\* The loop of Errors.Error() over the elements from index i on.
RECURSIVE ErrorsErrorLoop(_, _, _)
ErrorsErrorLoop(s, i, msg) ==
  IF i > Len(s) THEN msg
  ELSE ErrorsErrorLoop(s, i + 1, msg \o ErrorOf(s[i]) \o <<"\n">>)

\* errs.Error()
ErrorsError(e) ==
  CASE ErrorsLen(e) = 0 -> <<"<","n","i","l",">">>
    [] ErrorsLen(e) = 1 -> ErrorOf(Slice(e)[1])
    [] OTHER -> ErrorsErrorLoop(Slice(e), 1, <<"e","r","r","o","r","s",":","\n">>)

\* Clear that leaves the slice as it is.
ClearNoOp(e) == e

\* Clear that cuts the slice to its first element.
ClearKeepFirst(e) == [e EXCEPT !.len = IF e.len > 0 THEN 1 ELSE 0]

\* errs.Clear(): the aggregate afterwards (the slice is cut to length 0 over
\* the same backing array).
Clear(e) == [e EXCEPT !.len = 0]

\* Push that takes the first detail and ignores the others.
PushCallTruncating(code, details) ==
  /\ pc = "main"
  /\ errs.len < MaxLen
  /\ errs' = PushErr(errs, PushedError(code, details))
  /\ call' = [op |-> "Push", code |-> code, details |-> details, panic |-> FALSE]
  /\ mutated' = call'
  /\ pushed' = Append(pushed, PushedError(code, details))
  /\ UNCHANGED <<pc, ranged, errorCodeStrings, stringToErrorCode>>

\* A call of errs.Push(code, details...): it panics on more than one detail,
\* before anything else.
PushCall(code, details) ==
  /\ pc = "main"
  /\ IF Len(details) > 1
     THEN /\ call' = [op |-> "Push", code |-> code, details |-> details, panic |-> TRUE]
          /\ UNCHANGED <<errs, mutated, pushed>>
     ELSE /\ errs.len < MaxLen
          /\ errs' = PushErr(errs, PushedError(code, details))
          /\ call' = [op |-> "Push", code |-> code, details |-> details, panic |-> FALSE]
          /\ mutated' = call'
          /\ pushed' = Append(pushed, PushedError(code, details))
  /\ UNCHANGED <<pc, ranged, errorCodeStrings, stringToErrorCode>>

\* A call of errs.PushErr(err) with a non-nil err.
PushErrCall(err) ==
  /\ pc = "main"
  /\ errs.len < MaxLen
  /\ errs' = PushErr(errs, err)
  /\ call' = [op |-> "PushErr", err |-> err]
  /\ mutated' = call'
  /\ pushed' = Append(pushed, NewElement(err))
  /\ UNCHANGED <<pc, ranged, errorCodeStrings, stringToErrorCode>>

\* A call of errs.Error().
ErrorsErrorCall ==
  /\ pc = "main"
  /\ call' = [op |-> "Errors.Error", out |-> ErrorsError(errs)]
  /\ UNCHANGED <<pc, ranged, errorCodeStrings, stringToErrorCode, errs, mutated, pushed>>

\* A call of errs.Clear().
ClearCall ==
  /\ pc = "main"
  /\ errs' = Clear(errs)
  /\ call' = [op |-> "Clear"]
  /\ mutated' = call'
  /\ pushed' = <<>>
  /\ UNCHANGED <<pc, ranged, errorCodeStrings, stringToErrorCode>>

\* A call of errs.Len().
LenCall ==
  /\ pc = "main"
  /\ call' = [op |-> "Len", out |-> ErrorsLen(errs)]
  /\ UNCHANGED <<pc, ranged, errorCodeStrings, stringToErrorCode, errs, mutated, pushed>>

\* ------------------------------------------------------------------ inputs

\* Integers that are no defined code.
UndefinedCodes == {12, -1}

Codes == DefinedCodes \cup UndefinedCodes

\* Errors other than Error values.
RepoError == RepositoryNotFoundError(<<"f","o","o","/","b","a","r">>)

RangeError == BlobUploadInvalidRangeError(<<"/","v","2","/","x","/","1">>, 99, 500)

\* An Error with a message of its own and a detail.
CustomError == ErrorStruct(ErrorCodeInvalidName, <<"b","a","d"," ","n","a","m","e">>, StringValue(<<"f","o","o">>))

\* The details Push is called with.
Details ==
  {Nil, StringValue(<<"s","h","a","2","5","6",":","a","b","c","d">>), DetailUnknownLayer(<<"l","a","y","e","r">>), RepoError, CustomError}

\* The argument lists of Push in the exploration of the aggregate: some
\* codes without a detail, one code with each detail, and two lists of two
\* details.
PushArgs ==
  {<<c, <<>>>> : c \in {ErrorCodeInvalidDigest, ErrorCodeUnknownLayerUpload, 12}}
    \cup {<<ErrorCodeUnknownLayer, <<d>>>> : d \in Details}
    \cup {<<ErrorCodeInvalidTag, <<Nil, Nil>>>>,
          <<ErrorCodeUnknownLayer, <<StringValue(<<"a">>), RepoError>>>>}

\* The arguments of PushErr.
PushErrArgs == {CustomError, ErrorPointer(CustomError), RangeError}

\* Strings that are no identifier of a code.
OtherStrings ==
  {<<>>, <<"i","n","v","a","l","i","d","_","d","i","g","e","s","t">>, <<"I","N","V","A","L","I","D"," ","D","I","G","E","S","T">>, <<"I","N","V","A","L","I","D","_","D","I","G","E","S">>,
   <<"U","N","K","N","O","W","N","_","L","A","Y","E","R","_">>, <<"u","n","k","n","o","w","n"," ","e","r","r","o","r">>}

\* ---------------------------------------------------------- specifications

\* The aggregate under every argument list.
Next ==
  \/ InitLoop
  \/ InitReturn
  \/ \E a \in PushArgs : PushCall(a[1], a[2])
  \/ \E err \in PushErrArgs : PushErrCall(err)
  \/ ErrorsErrorCall
  \/ ClearCall
  \/ LenCall

Spec == Init /\ [][Next]_vars

\* The conversions of ErrorCode under every code and string, next to an
\* aggregate that holds at most one element, pushed under every code.
NextCodes ==
  \/ InitLoop
  \/ InitReturn
  \/ \E s \in OtherStrings \cup {errorCodeStringsLiteral[c] : c \in DefinedCodes} :
       ParseErrorCodeCall(s, <<>>)
  \/ call.op = "String" /\ ParseErrorCodeCall(call.out, <<call.ec>>)
  \/ \E ec \in Codes : StringCall(ec)
  \/ \E ec \in Codes : MessageCall(ec)
  \/ \E ec \in Codes : MarshalTextCall(ec)
  \/ \E s \in OtherStrings : UnmarshalTextCall(BytesOf(s), <<>>)
  \/ call.op = "MarshalText" /\ UnmarshalTextCall(call.text, <<call.ec>>)
  \/ errs.len = 0 /\ \E c \in Codes : PushCall(c, <<>>)
  \/ errs.len = 0 /\ PushErrCall(RepoError)
  \/ ErrorsErrorCall
  \/ ClearCall

SpecCodes == Init /\ [][NextCodes]_vars

\* ------------------------------------------------------------------ claims

\* The twelve identifiers of the wire vocabulary.
CanonicalIdentifiers ==
  {<<"U","N","K","N","O","W","N">>, <<"I","N","V","A","L","I","D","_","D","I","G","E","S","T">>, <<"I","N","V","A","L","I","D","_","L","E","N","G","T","H">>, <<"I","N","V","A","L","I","D","_","N","A","M","E">>,
   <<"I","N","V","A","L","I","D","_","T","A","G">>, <<"U","N","K","N","O","W","N","_","R","E","P","O","S","I","T","O","R","Y">>, <<"U","N","K","N","O","W","N","_","M","A","N","I","F","E","S","T">>,
   <<"I","N","V","A","L","I","D","_","M","A","N","I","F","E","S","T">>, <<"U","N","V","E","R","I","F","I","E","D","_","M","A","N","I","F","E","S","T">>, <<"U","N","K","N","O","W","N","_","L","A","Y","E","R">>,
   <<"U","N","K","N","O","W","N","_","L","A","Y","E","R","_","U","P","L","O","A","D">>, <<"U","N","T","R","U","S","T","E","D","_","S","I","G","N","A","T","U","R","E">>}

UpperCase ==
  <<"A","B","C","D","E","F","G","H","I","J","K","L","M",
    "N","O","P","Q","R","S","T","U","V","W","X","Y","Z">>

\* s lower-cased, with every underscore turned into a space.
SpacedLower(s) ==
  [i \in DOMAIN s |->
     IF s[i] = "_" THEN " "
     ELSE IF \E j \in DOMAIN UpperCase : UpperCase[j] = s[i]
          THEN Letters[CHOOSE j \in DOMAIN UpperCase : UpperCase[j] = s[i]]
          ELSE s[i]]

\* C1: a defined code survives the round trip through its identifier:
\* ParseErrorCode of what c.String() returned is c, and UnmarshalText of the
\* bytes c.MarshalText() returned stores c (and both report no error).
C1_RoundTrip ==
  /\ (call.op = "ParseErrorCode" /\ call.from # <<>> /\ call.from[1] \in DefinedCodes)
       => call.out = call.from[1]
  /\ (call.op = "MarshalText" /\ call.ec \in DefinedCodes)
       => call.err = Nil /\ StringOf(call.text) \in CanonicalIdentifiers
  /\ (call.op = "UnmarshalText" /\ call.from # <<>> /\ call.from[1] \in DefinedCodes)
       => call.ec = call.from[1] /\ call.err = Nil

C1_Witness ==
  /\ call.op = "UnmarshalText"
  /\ call.from = <<ErrorCodeUnknownLayerUpload>>
  /\ call.text = BytesOf(<<"U","N","K","N","O","W","N","_","L","A","Y","E","R","_","U","P","L","O","A","D">>)
  /\ call.ec = ErrorCodeUnknownLayerUpload

\* C2: the conversions are total with the unknown fallback: a string that is
\* none of the twelve identifiers parses and unmarshals to ErrorCodeUnknown,
\* UnmarshalText never returns an error, and a code outside the defined set
\* has the identifier UNKNOWN and the message "unknown error".
C2_UnknownFallback ==
  /\ (call.op = "ParseErrorCode" /\ call.s \notin CanonicalIdentifiers)
       => call.out = ErrorCodeUnknown
  /\ call.op = "UnmarshalText" => call.err = Nil
  /\ (call.op = "UnmarshalText" /\ StringOf(call.text) \notin CanonicalIdentifiers)
       => call.ec = ErrorCodeUnknown
  /\ (call.op = "String" /\ call.ec \notin DefinedCodes) => call.out = <<"U","N","K","N","O","W","N">>
  /\ (call.op = "Message" /\ call.ec \notin DefinedCodes) => call.out = <<"u","n","k","n","o","w","n"," ","e","r","r","o","r">>

C2_Witness ==
  \/ /\ call.op = "UnmarshalText"
     /\ call.text = BytesOf(<<"i","n","v","a","l","i","d","_","d","i","g","e","s","t">>)
     /\ call.ec = ErrorCodeUnknown
  \/ /\ call.op = "String"
     /\ call.ec = 12
     /\ call.out = <<"U","N","K","N","O","W","N">>

\* C4: Errors.Error() on an aggregate whose one element was pushed by
\* Push(c) is the identifier of c lower-cased with spaces for underscores,
\* then ": ", then the message of c, without the "errors:" header.
C4_SinglePush ==
  (call.op = "Errors.Error" /\ mutated.op = "Push" /\ Len(pushed) = 1)
    => /\ call.out = SpacedLower(String(mutated.code)) \o <<":"," ">> \o Message(mutated.code)
       /\ mutated.code = ErrorCodeInvalidDigest
            => call.out = <<"i","n","v","a","l","i","d"," ","d","i","g","e","s","t",":"," ","p","r","o","v","i","d","e","d"," ","d","i","g","e","s","t"," ","d","i","d"," ","n","o","t"," ","m","a","t","c","h"," ","u","p","l","o","a","d","e","d"," ","c","o","n","t","e","n","t">>

C4_Witness ==
  /\ call.op = "Errors.Error"
  /\ mutated.op = "Push"
  /\ mutated.code = ErrorCodeUnknownLayerUpload
  /\ mutated.details = <<>>
  /\ errs.len = 1
  /\ call.out = <<"u","n","k","n","o","w","n"," ","l","a","y","e","r"," ","u","p","l","o","a","d",":"," ","c","a","n","n","o","t"," ","r","e","s","u","m","e"," ","u","n","k","n","o","w","n"," ","l","a","y","e","r"," ","u","p","l","o","a","d">>

\* The code -> identifier table is total over the twelve defined codes and
\* injective, and once init has returned the identifier -> code table is
\* exactly its inverse.
TablesInverse ==
  /\ DOMAIN errorCodeStrings = DefinedCodes
  /\ Cardinality(DefinedCodes) = 12
  /\ \A c, d \in DefinedCodes : errorCodeStrings[c] = errorCodeStrings[d] => c = d
  /\ pc = "main" =>
       /\ DOMAIN stringToErrorCode = {errorCodeStrings[c] : c \in DefinedCodes}
       /\ \A c \in DefinedCodes : stringToErrorCode[errorCodeStrings[c]] = c

\* C10: the tables are total, injective and inverse to each other, and no
\* call changes either: the code -> identifier table never changes, the
\* reverse table only while init builds it.
C10_Tables ==
  /\ []TablesInverse
  /\ [][/\ errorCodeStrings' = errorCodeStrings
        /\ pc = "main" => stringToErrorCode' = stringToErrorCode]_vars

C10_Witness ==
  /\ pc = "main"
  /\ call.op = "UnmarshalText"
  /\ call.from = <<>>
  /\ mutated.op = "Clear"
  /\ Cardinality(DOMAIN stringToErrorCode) = 12
  /\ stringToErrorCode[<<"U","N","K","N","O","W","N","_","L","A","Y","E","R","_","U","P","L","O","A","D">>] = ErrorCodeUnknownLayerUpload

\* The descriptions of the elements pushed since the last Clear, in push order.
Descriptions == [i \in DOMAIN pushed |-> ErrorOf(pushed[i])]

\* The strings of ss with sep between consecutive ones.
RECURSIVE JoinWith(_, _)
JoinWith(ss, sep) ==
  IF Len(ss) = 0 THEN <<>>
  ELSE IF Len(ss) = 1 THEN ss[1]
       ELSE ss[1] \o sep \o JoinWith(Tail(ss), sep)

\* The strings of ss, each followed by end.
RECURSIVE EachFollowedBy(_, _)
EachFollowedBy(ss, end) ==
  IF Len(ss) = 0 THEN <<>> ELSE ss[1] \o end \o EachFollowedBy(Tail(ss), end)

\* C3 as stated: Errors.Error() on more than one element is "errors:\n"
\* followed by the descriptions with a "\n" between consecutive ones, in
\* push order.
C3_NewlineJoined ==
  (call.op = "Errors.Error" /\ Len(pushed) > 1)
    => call.out = <<"e","r","r","o","r","s",":","\n">> \o JoinWith(Descriptions, <<"\n">>)

\* C3 as amended: Errors.Error() on more than one element is "errors:\n"
\* followed by the descriptions in push order, each followed by a "\n", the
\* last one too.
C3_NewlineTerminated ==
  (call.op = "Errors.Error" /\ Len(pushed) > 1)
    => call.out = <<"e","r","r","o","r","s",":","\n">> \o EachFollowedBy(Descriptions, <<"\n">>)

C3_Witness ==
  /\ call.op = "Errors.Error"
  /\ errs.len = 2
  /\ pushed[1].Code = ErrorCodeInvalidDigest
  /\ pushed[2].Code = ErrorCodeUnknownLayerUpload
  /\ call.out = <<"e","r","r","o","r","s",":","\n","i","n","v","a","l","i","d"," ","d","i","g","e","s","t",":"," ","p","r","o","v","i","d","e","d"," ","d","i","g","e","s","t"," ","d","i","d"," ","n","o","t"," ","m","a","t","c","h"," ","u","p","l","o","a","d","e","d"," ","c","o","n","t","e","n","t","\n","u","n","k","n","o","w","n"," ","l","a","y","e","r"," ","u","p","l","o","a","d",":"," ","c","a","n","n","o","t"," ","r","e","s","u","m","e"," ","u","n","k","n","o","w","n"," ","l","a","y","e","r"," ","u","p","l","o","a","d","\n">>

\* C5: on an aggregate that was just cleared, or never pushed to, Len()
\* returns 0 and Errors.Error() returns "<nil>", whatever was pushed before.
C5_ClearedIsEmpty ==
  /\ mutated.op \in {"new", "Clear"} => ErrorsLen(errs) = 0
  /\ (call.op = "Len" /\ mutated.op \in {"new", "Clear"}) => call.out = 0
  /\ (call.op = "Errors.Error" /\ mutated.op \in {"new", "Clear"}) => call.out = <<"<","n","i","l",">">>

C5_Witness ==
  /\ call.op = "Errors.Error"
  /\ mutated.op = "Clear"
  /\ Cap(errs) = 2
  /\ errs.array[2] # Nil
  /\ call.out = <<"<","n","i","l",">">>

\* C6: Push with more than one detail panics, and only then, and that call
\* leaves the aggregate (its elements, length and backing array) as it was.
C6_PanicOnManyDetails ==
  /\ [](call.op = "Push" => (call.panic <=> Len(call.details) > 1))
  /\ [][(call'.op = "Push" /\ Len(call'.details) > 1)
          => /\ call'.panic
             /\ errs' = errs
             /\ pushed' = pushed
             /\ ErrorsLen(errs') = ErrorsLen(errs)]_vars

C6_Witness ==
  /\ call.op = "Push"
  /\ call.panic
  /\ call.details = <<StringValue(<<"a">>), RepoError>>
  /\ errs.len = 1
  /\ mutated.op = "PushErr"

\* C7: PushErr appends exactly one element: err itself when it is an Error
\* value, else an Error with err's description as message, the unknown code
\* and no detail; and every stored element is an Error value.
C7_PushErrAppends ==
  /\ [](\A i \in 1..errs.len : errs.array[i].type = "Error")
  /\ [][call'.op = "PushErr"
          => /\ ErrorsLen(errs') = ErrorsLen(errs) + 1
             /\ SubSeq(Slice(errs'), 1, ErrorsLen(errs)) = Slice(errs)
             /\ LET e == Slice(errs')[ErrorsLen(errs')]
                IN  IF call'.err.type = "Error"
                    THEN e = call'.err
                    ELSE /\ e.type = "Error"
                         /\ e.Message = ErrorOf(call'.err)
                         /\ e.Code = ErrorCodeUnknown
                         /\ e.Detail = Nil]_vars

C7_Witness ==
  /\ call.op = "PushErr"
  /\ call.err = RangeError
  /\ errs.len = 2
  /\ errs.array[2].Code = ErrorCodeUnknown
  /\ errs.array[2].Message =
       <<"I","n","v","a","l","i","d"," ","r","a","n","g","e"," ","p","r","o","v","i","d","e","d"," ","f","o","r"," ","u","p","l","o","a","d"," ","a","t"," ","L","o","c","a","t","i","o","n",":"," ","/","v","2","/","x","/","1","."," ","L","a","s","t"," ","V","a","l","i","d"," ","R","a","n","g","e",":"," ","9","9",","," ","B","l","o","b"," ","S","i","z","e",":"," ","5","0","0">>
  /\ errs.array[1] = CustomError

\* C8: Push with at most one detail appends an Error with the given code,
\* the message of that code, and as detail: nothing without a detail, the
\* detail itself when it is no error, its description (a string) when it is
\* an error.
C8_PushAppends ==
  [][(call'.op = "Push" /\ ~call'.panic)
       => LET e == Slice(errs')[ErrorsLen(errs')]
              d == call'.details
          IN  /\ ErrorsLen(errs') = ErrorsLen(errs) + 1
              /\ e.type = "Error"
              /\ e.Code = call'.code
              /\ e.Message = Message(call'.code)
              /\ Len(d) = 0 => e.Detail = Nil
              /\ (Len(d) = 1 /\ d[1].type \notin ErrorTypes) => e.Detail = d[1]
              /\ (Len(d) = 1 /\ d[1].type \in ErrorTypes)
                   => /\ e.Detail.type = "string"
                      /\ e.Detail.s = ErrorOf(d[1])]_vars

C8_Witness ==
  /\ call.op = "Push"
  /\ call.details = <<RepoError>>
  /\ errs.len = 1
  /\ errs.array[1].Code = ErrorCodeUnknownLayer
  /\ errs.array[1].Message = <<"r","e","f","e","r","e","n","c","e","d"," ","l","a","y","e","r"," ","n","o","t"," ","a","v","a","i","l","a","b","l","e">>
  /\ errs.array[1].Detail = StringValue(<<"N","o"," ","r","e","p","o","s","i","t","o","r","y"," ","f","o","u","n","d"," ","w","i","t","h"," ","N","a","m","e",":"," ","f","o","o","/","b","a","r">>)

\* C9: the stored sequence is exactly the elements pushed since the last
\* Clear, in push order; a Push that returns and a PushErr add one element
\* at the end and leave the earlier ones alone; only Clear removes elements,
\* and it removes them all.
C9_AppendOnly ==
  /\ [](Slice(errs) = pushed)
  /\ [][/\ (call'.op = "PushErr" \/ (call'.op = "Push" /\ ~call'.panic))
             => /\ ErrorsLen(errs') = ErrorsLen(errs) + 1
                /\ SubSeq(Slice(errs'), 1, ErrorsLen(errs)) = Slice(errs)
        /\ (\E i \in 1..ErrorsLen(errs) :
               i > ErrorsLen(errs') \/ Slice(errs')[i] # Slice(errs)[i])
             => call'.op = "Clear"
        /\ call'.op = "Clear" => ErrorsLen(errs') = 0]_vars

C9_Witness ==
  /\ mutated.op = "Push"
  /\ errs.len = 1
  /\ Cap(errs) = 2
  /\ errs.array[2] = CustomError
  /\ errs.array[1].Code = 12
  /\ pushed = <<errs.array[1]>>
====
